---- MODULE Spec2Model ----
(***************************************************************************)
(* Disconnection-aware response generator (src/app/api/mock/route.ts) and  *)
(* the client request orchestrator with its two streaming parsers          *)
(* (src/app/page.tsx).                                                     *)
(*                                                                         *)
(* Server times are kept in fifths of a millisecond, so that the stream    *)
(* interval min(1000, duration / 5) is an integer for every integer        *)
(* duration.  Floating-point rounding of the source's arithmetic is not    *)
(* modelled: quotients are exact.                                          *)
(*                                                                         *)
(* JavaScript runs each handler to its next await without interleaving,    *)
(* so one action is one such run: the code from one suspension point to    *)
(* the next, its catch and finally blocks included.                        *)
(***************************************************************************)
EXTENDS Integers, Sequences, FiniteSets, TLC

VARIABLES
    \* ---- server: one GET operation (route.ts) ----
    smode,              \* url.searchParams.get("mode")
    duration,           \* parseInt(url.searchParams.get("duration")), in ms
    sig,                \* req.signal.aborted
    spc,                \* "request" | "delay" (awaiting setTimeoutPromise) | "done"
    elapsed,            \* let elapsed, in fifths of a ms
    timer,              \* due time of the pending setTimeoutPromise (fifths), or NoTimer
    heartbeatInterval,  \* due time of the armed setInterval (fifths), or NoTimer (null)
    controller,         \* the ReadableStream controller: [state, out]
    status,             \* HTTP status of the Response returned, 0 before
    sbody,              \* its body: "none" | "json" | "text" | "stream"
    slog,               \* the console.log / console.error lines of the operation
    faults,             \* exceptions seen: enqueue/close that threw, escapes
    \* ---- client: the component state and its operations (page.tsx) ----
    loading,            \* useState(false)
    response,           \* useState(null): Null or the data stored
    error,              \* useState(null): Null or the message
    progress,           \* useState(0)
    abortControllerRef, \* the request whose AbortController the ref holds, or 0
    requestIdRef,       \* useRef(0)
    cpc,                \* per request: "idle" | "fetch" | "json" | "read" | "done"
    cexit,              \* per request: the place handleApiCall left by
    cmode,              \* per request: the mode its closure captured
    aborted,            \* per request: abortController.signal.aborted
    body,               \* per request: the bytes of the response body
    rpos,               \* per request: how many of them the reader has delivered
    buffer,             \* per request: let buffer of handleStreamResponse
    reader,             \* per request: "none" | "locked" | "released"
    applied             \* per request: the units it passed to setProgress/setResponse

svars == <<smode, duration, sig, spc, elapsed, timer, heartbeatInterval,
           controller, status, sbody, slog, faults>>

ui == <<loading, response, error, progress>>

cvars == <<loading, response, error, progress, abortControllerRef, requestIdRef,
           cpc, cexit, cmode, aborted, body, rpos, buffer, reader, applied>>

vars == <<svars, cvars>>

\* ------------------------------------------------------------------ bounds

\* Durations are the multiples of DurationUnit up to MaxDurationUnits of them.
DurationUnit == 250
MaxDurationUnits == 24

\* The negative one stands for the durations below zero that parseInt can return.
Durations == {k * DurationUnit : k \in (-1)..MaxDurationUnits}

\* The client issues at most MaxRequests requests.
MaxRequests == 2

\* A response body of the parser checks is at most MaxPieces pieces long.
MaxPieces == 3

\* ------------------------------------------------------- program constants

HeartbeatMs == 1000
checkInterval == 500
StreamMaxIntervalMs == 1000
StreamTicks == 5

NoTimer == -1

\* The null of the component state.
Null == "null"

\* useState(null) of the response: no data stored.
NullData == [type |-> "null", progress |-> 0]

Modes == {"signal", "stream", "heartbeat", "chunked"}
StreamingModes == {"stream", "heartbeat", "chunked"}
\* "other" stands for every mode string the switch of GET does not name.
RequestModes == Modes \cup {"other"}

\* A duration in fifths of a millisecond.
T(ms) == 5 * ms

Min(a, b) == IF a < b THEN a ELSE b
Max(a, b) == IF a > b THEN a ELSE b

\* ------------------------------------------------------------ stream units

StartUnit == [type |-> "start", progress |-> 0]
CompleteUnit == [type |-> "complete", progress |-> 0]
HeartbeatUnit == [type |-> "heartbeat", progress |-> 0]
ProgressUnit(p) == [type |-> "progress", progress |-> p]

\* --------------------------------------------- ReadableStream controller

\* A controller value during one synchronous run: the stream state, the units
\* enqueued so far, and what threw in this run.
Ctl(c) == [state |-> c.state, out |-> c.out, threw |-> FALSE, nthrow |-> 0]

\* controller.enqueue(u): throws TypeError unless the stream is readable.
enqueue(c, u) ==
    IF c.state = "readable"
    THEN [c EXCEPT !.out = Append(@, u), !.threw = FALSE]
    ELSE [c EXCEPT !.threw = TRUE, !.nthrow = @ + 1]

\* controller.close(): throws TypeError unless the stream is readable.
close(c) ==
    IF c.state = "readable"
    THEN [c EXCEPT !.state = "closed", !.threw = FALSE]
    ELSE [c EXCEPT !.threw = TRUE, !.nthrow = @ + 1]

\* controller.error(e): a no-op unless the stream is readable; never throws.
controller_error(c) ==
    IF c.state = "readable"
    THEN [c EXCEPT !.state = "errored", !.threw = FALSE]
    ELSE [c EXCEPT !.threw = FALSE]

\* ------------------------------------------------------- server: helpers

\* Math.round(x) for x = num / den, den > 0: the nearest integer, halves up.
MathRound(num, den) == (2 * num + den) \div (2 * den)

\* const progress = Math.round((elapsed / duration) * 100), elapsed in fifths.
Progress(e, d) == MathRound(100 * e, T(d))

\* The tick of the loop in fifths: intervalMs = Math.min(1000, duration / 5)
\* in stream mode, checkInterval in chunked mode.
Interval(m, d) ==
    IF m = "stream" THEN Min(T(StreamMaxIntervalMs), (T(d) \div StreamTicks))
    ELSE T(checkInterval)

\* Mutant: the wait is not clamped to the remaining time.
WaitTime_Unclamped(m, d, e) == Interval(m, d)

\* const waitTime = Math.min(intervalMs, duration - elapsed)
WaitTime(m, d, e) == Min(Interval(m, d), T(d) - e)

\* The due time of setTimeout(ms): Node runs a delay below 1 ms as 1 ms.
Due(from, ms5) == from + Max(ms5, T(1))

\* The result of one synchronous run of the server: the values the run leaves
\* in the variables it can write.
Run(c, pc, e, tm, hb, lg, fl) ==
    [ctl |-> c, spc |-> pc, elapsed |-> e, timer |-> tm, hb |-> hb,
     log |-> lg, faults |-> fl]

\* Mutant: the catch leaves the heartbeat interval armed.
AbortCatch_KeepInterval(m, c, e, lg, fl) ==
    LET c1 == close(c)
    IN Run(c1, "done", e, NoTimer, heartbeatInterval, Append(lg, "aborted"),
           IF c1.threw THEN fl \cup {"close", "start"} ELSE fl)

\* catch (error) of a stream start(), error.name === "AbortError".
\* Stream: log, controller.close().  Chunked: log, then the common
\* controller.close().  Heartbeat: clear the interval, log, controller.close().
\* A close() that throws here escapes start().
AbortCatch(m, c, e, lg, fl) ==
    LET c1 == close(c)
    IN Run(c1, "done", e, NoTimer, NoTimer, Append(lg, "aborted"),
           IF c1.threw THEN fl \cup {"close", "start"} ELSE fl)

\* catch (error) of a stream start(), any other error: console.error and
\* controller.error(error); chunked and heartbeat then call controller.close(),
\* which throws on the stream just errored or already closed.
ErrorCatch(m, c, e, lg, fl) ==
    LET c1 == controller_error(c)
        c2 == IF m = "stream" THEN c1 ELSE close(c1)
    IN Run(c2, "done", e, NoTimer, NoTimer, Append(lg, "error"),
           IF c2.threw THEN fl \cup {"close", "start"} ELSE fl)

\* Mutant: the loop over, the stream is closed without a completion unit.
StreamLoop_NoCompletion(m, c, e, lg, fl) ==
    IF e < T(duration)
    THEN IF sig
         THEN AbortCatch(m, c, e, lg, fl)
         ELSE Run(c, "delay", e, e + WaitTime(m, duration, e), NoTimer, lg, fl)
    ELSE Run(close(c), "done", e, NoTimer, NoTimer, Append(lg, "completed"), fl)

\* The loop of handleStreamMode / handleChunkedMode from its test
\* `while (elapsed < duration)` on, with elapsed = e, to the next await or
\* to the end of start().
StreamLoop(m, c, e, lg, fl) ==
    IF e < T(duration)
    THEN \* await setTimeoutPromise(waitTime, undefined, {signal: req.signal})
         IF sig
         THEN AbortCatch(m, c, e, lg, fl)
         ELSE Run(c, "delay", e, e + WaitTime(m, duration, e), NoTimer, lg, fl)
    ELSE \* Send completion message, log, controller.close()
         LET c1 == enqueue(c, CompleteUnit)
             c2 == close(c1)
         IN IF c1.threw
            THEN ErrorCatch(m, c1, e, lg, fl \cup {"enqueue"})
            ELSE IF c2.threw
            THEN ErrorCatch(m, c2, e, Append(lg, "completed"), fl \cup {"close"})
            ELSE Run(c2, "done", e, NoTimer, NoTimer, Append(lg, "completed"), fl)

\* The body of the loop after its await: elapsed += waitTime, then the inner
\* try that enqueues the progress unit.  Its catch logs, calls
\* controller.close() and returns; on the stream that refused the write the
\* close() throws into the outer catch.
StreamTick(m, c, e, lg, fl) ==
    LET c1 == enqueue(c, ProgressUnit(Progress(e, duration)))
        c2 == close(c1)
    IN IF ~c1.threw
       THEN StreamLoop(m, c1, e, lg, fl)
       ELSE IF c2.threw
       THEN ErrorCatch(m, c2, e, Append(lg, "disconnected"),
                       fl \cup {"enqueue", "close"})
       ELSE Run(c2, "done", e, NoTimer, NoTimer, Append(lg, "disconnected"),
                fl \cup {"enqueue"})

\* start() of handleStreamMode / handleChunkedMode up to its first await.
StreamStart(m, c, lg, fl) ==
    LET c1 == enqueue(c, StartUnit)
    IN IF c1.threw
       THEN ErrorCatch(m, c1, 0, Append(lg, "starting"), fl \cup {"enqueue"})
       ELSE StreamLoop(m, c1, 0, Append(lg, "starting"), fl)

\* start() of handleHeartbeatMode up to its await: the initial event, the
\* setInterval, and the main delay.
HeartbeatStart(c, lg, fl) ==
    LET c1 == enqueue(c, StartUnit)
        lg1 == Append(lg, "starting")
    IN IF c1.threw
       THEN ErrorCatch("heartbeat", c1, 0, lg1, fl \cup {"enqueue"})
       ELSE IF sig
       THEN AbortCatch("heartbeat", c1, 0, lg1, fl)
       ELSE Run(c1, "delay", 0, Due(0, T(duration)), T(HeartbeatMs), lg1, fl)

\* The setInterval callback: enqueue a heartbeat; on a throw log, clear the
\* interval and call controller.close(), whose throw escapes the callback.
HeartbeatCallback(c, hb, lg, fl) ==
    LET c1 == enqueue(c, HeartbeatUnit)
        c2 == close(c1)
    IN IF ~c1.threw
       THEN Run(c1, spc, elapsed, timer, hb + T(HeartbeatMs), lg, fl)
       ELSE Run(c2, spc, elapsed, timer, NoTimer,
                Append(lg, "disconnected"),
                IF c2.threw THEN fl \cup {"enqueue", "close", "uncaught"}
                ELSE fl \cup {"enqueue"})

\* Mutant: the completion event is sent with the interval left armed and the
\* stream left open.
HeartbeatComplete_Orphan(c, lg, fl) ==
    Run(enqueue(c, CompleteUnit), "done", elapsed, NoTimer, heartbeatInterval,
        Append(lg, "completed"), fl)

\* handleHeartbeatMode after its main delay: clear the heartbeat, send the
\* completion event, log, controller.close().
HeartbeatComplete(c, lg, fl) ==
    LET c1 == enqueue(c, CompleteUnit)
        c2 == close(c1)
    IN IF c1.threw
       THEN ErrorCatch("heartbeat", c1, elapsed, lg, fl \cup {"enqueue"})
       ELSE IF c2.threw
       THEN ErrorCatch("heartbeat", c2, elapsed, Append(lg, "completed"),
                       fl \cup {"close"})
       ELSE Run(c2, "done", elapsed, NoTimer, NoTimer,
                Append(lg, "completed"), fl)

\* Store the result of a run.
Store(r) ==
    /\ controller' = [state |-> r.ctl.state, out |-> r.ctl.out]
    /\ spc' = r.spc
    /\ elapsed' = r.elapsed
    /\ timer' = r.timer
    /\ heartbeatInterval' = r.hb
    /\ slog' = r.log
    /\ faults' = r.faults

\* ------------------------------------------------------- server: actions

\* Mutant: the delay is started without the signal.
handleSignalMode_NoSignal ==
    /\ smode = "signal"
    /\ spc' = "delay"
    /\ timer' = Due(0, T(duration))
    /\ slog' = <<"starting">>
    /\ UNCHANGED <<status, sbody, elapsed, heartbeatInterval, controller, faults>>

\* handleSignalMode to its await: setTimeoutPromise rejects at once on a
\* signal already aborted, and the catch answers 499.
handleSignalMode ==
    /\ smode = "signal"
    /\ IF sig
       THEN /\ spc' = "done"
            /\ status' = 499
            /\ sbody' = "text"
            /\ slog' = <<"starting", "aborted">>
            /\ timer' = NoTimer
       ELSE /\ spc' = "delay"
            /\ timer' = Due(0, T(duration))
            /\ slog' = <<"starting">>
            /\ UNCHANGED <<status, sbody>>
    /\ UNCHANGED <<elapsed, heartbeatInterval, controller, faults>>

handleStreamMode ==
    /\ smode = "stream"
    /\ Store(StreamStart("stream", Ctl(controller), slog, faults))
    /\ status' = 200
    /\ sbody' = "stream"

handleChunkedMode ==
    /\ smode = "chunked"
    /\ Store(StreamStart("chunked", Ctl(controller), slog, faults))
    /\ status' = 200
    /\ sbody' = "stream"

handleHeartbeatMode ==
    /\ smode = "heartbeat"
    /\ Store(HeartbeatStart(Ctl(controller), slog, faults))
    /\ status' = 200
    /\ sbody' = "stream"

InvalidMode ==
    /\ smode \notin Modes
    /\ spc' = "done"
    /\ status' = 400
    /\ sbody' = "text"
    /\ UNCHANGED <<elapsed, timer, heartbeatInterval, controller, slog, faults>>

\* export const GET: the switch on mode.
GET ==
    /\ spc = "request"
    /\ \/ handleSignalMode
       \/ handleStreamMode
       \/ handleHeartbeatMode
       \/ handleChunkedMode
       \/ InvalidMode
    /\ UNCHANGED <<smode, duration, sig>>
    /\ UNCHANGED cvars

\* The pending setTimeoutPromise resolves and the handler runs on from its
\* await.  In heartbeat mode an interval tick due earlier runs first.
DelayResolves ==
    /\ spc = "delay"
    /\ heartbeatInterval = NoTimer \/ timer <= heartbeatInterval
    /\ CASE smode = "signal" ->
              /\ spc' = "done"
              /\ status' = 200
              /\ sbody' = "json"
              /\ slog' = Append(slog, "completed")
              /\ timer' = NoTimer
              /\ UNCHANGED <<elapsed, heartbeatInterval, controller, faults>>
         [] smode = "heartbeat" ->
              /\ Store(HeartbeatComplete(Ctl(controller), slog, faults))
              /\ UNCHANGED <<status, sbody>>
         [] OTHER ->
              /\ Store(StreamTick(smode, Ctl(controller), timer, slog, faults))
              /\ UNCHANGED <<status, sbody>>
    /\ UNCHANGED <<smode, duration, sig>>
    /\ UNCHANGED cvars

\* Bound on the interval ticks of an interval nothing cleared.
MaxHeartbeat == T(MaxDurationUnits * DurationUnit) + T(HeartbeatMs)

\* The setInterval callback of heartbeat mode runs.
HeartbeatTick ==
    /\ heartbeatInterval # NoTimer
    /\ heartbeatInterval <= MaxHeartbeat
    /\ timer = NoTimer \/ heartbeatInterval <= timer
    /\ Store(HeartbeatCallback(Ctl(controller), heartbeatInterval, slog, faults))
    /\ UNCHANGED <<smode, duration, sig, status, sbody>>
    /\ UNCHANGED cvars

\* req.signal fires.  A pending setTimeoutPromise rejects with AbortError
\* and the handler runs its catch; otherwise only the flag changes.
Abort ==
    /\ ~sig
    /\ spc # "request"
    /\ sig' = TRUE
    /\ IF spc = "delay"
       THEN IF smode = "signal"
            THEN /\ spc' = "done"
                 /\ status' = 499
                 /\ sbody' = "text"
                 /\ slog' = Append(slog, "aborted")
                 /\ timer' = NoTimer
                 /\ UNCHANGED <<elapsed, heartbeatInterval, controller, faults>>
            ELSE /\ Store(AbortCatch(smode, Ctl(controller), elapsed, slog, faults))
                 /\ UNCHANGED <<status, sbody>>
       ELSE UNCHANGED <<spc, elapsed, timer, heartbeatInterval, controller,
                        status, sbody, slog, faults>>
    /\ UNCHANGED <<smode, duration>>
    /\ UNCHANGED cvars

\* The consumer of the response stream goes away: the stream is cancelled,
\* and from then on enqueue and close throw.
PeerCancel ==
    /\ sbody = "stream"
    /\ controller.state = "readable"
    /\ controller' = [controller EXCEPT !.state = "closed"]
    /\ UNCHANGED <<smode, duration, sig, spc, elapsed, timer, heartbeatInterval,
                   status, sbody, slog, faults>>
    /\ UNCHANGED cvars

Requests == 1..MaxRequests

\* The component as constructed: the useState and useRef initial values, and
\* no request issued.
ClientIdle ==
    /\ loading = FALSE
    /\ response = NullData
    /\ error = Null
    /\ progress = 0
    /\ abortControllerRef = 0
    /\ requestIdRef = 0
    /\ cpc = [i \in Requests |-> "idle"]
    /\ cexit = [i \in Requests |-> "none"]
    /\ cmode = [i \in Requests |-> "signal"]
    /\ aborted = [i \in Requests |-> FALSE]
    /\ body = [i \in Requests |-> <<>>]
    /\ rpos = [i \in Requests |-> 0]
    /\ buffer = [i \in Requests |-> <<>>]
    /\ reader = [i \in Requests |-> "none"]
    /\ applied = [i \in Requests |-> <<>>]

ServerInit ==
    /\ smode \in RequestModes
    /\ duration \in Durations
    /\ sig \in BOOLEAN
    /\ spc = "request"
    /\ elapsed = 0
    /\ timer = NoTimer
    /\ heartbeatInterval = NoTimer
    /\ controller = [state |-> "readable", out |-> <<>>]
    /\ status = 0
    /\ sbody = "none"
    /\ slog = <<>>
    /\ faults = {}
    /\ ClientIdle

ServerNext ==
    \/ GET
    \/ DelayResolves
    \/ HeartbeatTick
    \/ Abort
    \/ PeerCancel

\* ------------------------------------------------------ server: claims

Logged(m) == \E i \in 1..Len(slog) : slog[i] = m

UnitsOf(seq, t) == {i \in 1..Len(seq) : seq[i].type = t}

\* The completion units of the response: the JSON body in signal mode, the
\* complete units of the stream otherwise.
CompletionUnits ==
    IF smode = "signal"
    THEN (IF sbody = "json" THEN 1 ELSE 0)
    ELSE Cardinality(UnitsOf(controller.out, "complete"))

ProgressUnits == UnitsOf(controller.out, "progress")

\* The progress value of the last progress unit, as a set: empty when no
\* progress unit was written.
FinalProgress ==
    {controller.out[i].progress :
        i \in {k \in ProgressUnits : \A j \in ProgressUnits : j <= k}}

CompletedOperation ==
    /\ smode \in Modes
    /\ duration >= 0
    /\ spc = "done"
    /\ Logged("completed")

\* C3 as stated: in every mode and for every duration >= 0 a completed
\* operation has produced exactly one completion unit and its final progress
\* value is 100.
C3_FinalProgress100AllModes ==
    CompletedOperation => CompletionUnits = 1 /\ FinalProgress = {100}

\* C3 amended: a completed operation has produced exactly one completion
\* unit; in stream and chunked mode with duration > 0 its last progress unit
\* carries 100; in signal and heartbeat mode, and for duration 0, it has
\* produced no progress unit at all.
C3_OneCompletionProgress100 ==
    CompletedOperation =>
        /\ CompletionUnits = 1
        /\ IF smode \in {"stream", "chunked"} /\ duration > 0
           THEN FinalProgress = {100}
           ELSE ProgressUnits = {}

C3_Witness ==
    /\ CompletedOperation
    /\ smode = "chunked"
    /\ duration = 3 * DurationUnit
    /\ Cardinality(ProgressUnits) = 2
    /\ FinalProgress = {100}

\* The units of type progress or complete a step adds to the stream.
Emitted(t) == Cardinality(UnitsOf(controller.out, t))

\* C4: in stream and chunked mode, once req.signal is triggered no step adds
\* a progress or a completion unit, and the operation ends with the stream
\* closed and no completion unit after the trigger.
C4_NoUnitAfterAbort ==
    /\ [][(smode \in {"stream", "chunked"} /\ duration >= 0 /\ sig') =>
              /\ Emitted("progress")' = Emitted("progress")
              /\ Emitted("complete")' = Emitted("complete")]_vars
    /\ [](smode \in {"stream", "chunked"} /\ sig /\ spc # "request" =>
              spc = "done" /\ controller.state # "readable")

\* C5: signal mode ends in exactly one of two outcomes, 200 with the JSON
\* body after the delay has finished or 499 with a text body after the signal
\* was seen; a step at which the signal is set before the operation is done
\* ends it at once with 499, never with the completion body.
C5_SignalOutcomes ==
    /\ [](smode = "signal" =>
            IF spc = "done"
            THEN \/ /\ status = 200 /\ sbody = "json"
                    /\ Logged("completed") /\ ~Logged("aborted")
                 \/ /\ status = 499 /\ sbody = "text" /\ sig
                    /\ Logged("aborted") /\ ~Logged("completed")
            ELSE status = 0 /\ sbody = "none")
    /\ [][(smode = "signal" /\ sig' /\ spc # "done") =>
              (spc' = "done" /\ status' = 499 /\ sbody' = "text")]_vars

C5_Witness ==
    /\ smode = "signal"
    /\ spc = "done"
    /\ status = 499
    /\ duration > 0
    /\ slog = <<"starting", "aborted">>

C7_WriteFailureEndsOperation ==
    (smode \in StreamingModes /\ "enqueue" \in faults) =>
        /\ spc = "done"
        /\ timer = NoTimer
        /\ heartbeatInterval = NoTimer
        /\ controller.state = "closed"

\* C11: in a streaming mode with duration <= 0 the stream never carries
\* anything but the start unit followed by the completion unit (no progress
\* and no heartbeat unit), and an operation that ended without abort and
\* without a refused write has written exactly these two and closed the stream.
C11_NonPositiveDuration ==
    (smode \in StreamingModes /\ duration <= 0) =>
        /\ controller.out \in {<<>>, <<StartUnit>>, <<StartUnit, CompleteUnit>>}
        /\ (spc = "done" /\ ~Logged("aborted") /\ faults = {}) =>
              /\ controller.out = <<StartUnit, CompleteUnit>>
              /\ controller.state = "closed"

C11_Witness ==
    /\ smode = "heartbeat"
    /\ duration < 0
    /\ spc = "done"
    /\ ~sig
    /\ controller.out = <<StartUnit, CompleteUnit>>
    /\ controller.state = "closed"

\* C15: in a streaming mode the stream carries at most one completion unit
\* and nothing after it: no progress and no heartbeat unit follows the
\* completion unit, whichever of a heartbeat tick and the main delay runs
\* first when both are due at the same time.
C15_CompletionLast ==
    smode \in StreamingModes =>
        /\ Emitted("complete") <= 1
        /\ \A k \in 1..Len(controller.out) :
               controller.out[k].type = "complete" => k = Len(controller.out)

\* The heartbeat due with the main delay ran first, then the completion.
C15_Witness ==
    /\ smode = "heartbeat"
    /\ duration = HeartbeatMs
    /\ spc = "done"
    /\ controller.out = <<StartUnit, HeartbeatUnit, CompleteUnit>>
    /\ heartbeatInterval = NoTimer

\* The progress values written so far are non-decreasing and within 0..100.
ProgressMonotone ==
    /\ \A k \in ProgressUnits : controller.out[k].progress \in 0..100
    /\ \A j, k \in ProgressUnits :
           j < k => controller.out[j].progress <= controller.out[k].progress

\* C16 as stated: in stream and chunked mode, for every duration, elapsed
\* never exceeds the total duration, no wait ends after it, elapsed equals it
\* once the loop has ended and the completion unit is written, and the
\* progress values are non-decreasing within 0..100.
C16_ElapsedReachesDuration ==
    (smode \in {"stream", "chunked"} /\ spc # "request") =>
        /\ elapsed <= T(duration)
        /\ spc = "delay" => timer <= T(duration)
        /\ Emitted("complete") = 1 => elapsed = T(duration)
        /\ ProgressMonotone

\* C16 amended: the same for duration >= 0; for duration < 0 the loop is
\* never entered and elapsed stays 0, above the total duration.
C16_ElapsedReachesNonNegativeDuration ==
    (smode \in {"stream", "chunked"} /\ spc # "request") =>
        /\ elapsed <= Max(T(duration), 0)
        /\ spc = "delay" => (elapsed < timer /\ timer <= T(duration))
        /\ Emitted("complete") = 1 => elapsed = Max(T(duration), 0)
        /\ ProgressMonotone

\* A chunked operation whose last wait was cut to the remaining time.
C16_Witness ==
    /\ smode = "chunked"
    /\ duration = 5 * DurationUnit
    /\ spc = "done"
    /\ elapsed = T(duration)
    /\ Cardinality(ProgressUnits) = 3
    /\ Emitted("complete") = 1

\* The operation has ended: it completed, it saw the signal, or a write of
\* its own was refused.
OperationEnded ==
    Logged("completed") \/ Logged("aborted") \/ "enqueue" \in faults

\* C19: every streaming operation that has started ends with its stream
\* closed or errored, and once it has ended (by completion, by the signal or
\* by a refused write) it takes no further step: nothing it owns changes.
C19_StreamTerminates ==
    /\ (smode \in StreamingModes /\ spc # "request") ~>
           (spc = "done" /\ controller.state # "readable")
    /\ [][(smode \in StreamingModes /\ OperationEnded) =>
              UNCHANGED <<spc, elapsed, timer, heartbeatInterval, controller,
                          slog, faults>>]_vars

\* C21: in a streaming mode no controller.close() is ever called on a stream
\* that is already closed or errored: no close() of the operation throws.
C21_NoTerminalCallFails ==
    smode \in StreamingModes => "close" \notin faults

\* ------------------------------------------------ client: text and JSON

\* Text is a sequence of tokens.  "{" and "}" are the braces of an object,
\* "\n" the line break, " " white space, "x" any other character; "data:"
\* followed by " " is the SSE prefix `data: `; and one token stands for the
\* member list of each unit the server writes.
UnitOf(tok) ==
    CASE tok = "start" -> StartUnit
      [] tok = "heartbeat" -> HeartbeatUnit
      [] tok = "complete" -> CompleteUnit
      [] tok = "p50" -> ProgressUnit(50)
      [] tok = "p100" -> ProgressUnit(100)

MemberTokens == {"start", "heartbeat", "complete", "p50", "p100"}

\* JSON.stringify of a unit.
JSONstringify(u) ==
    <<"{", CHOOSE tok \in MemberTokens : UnitOf(tok) = u, "}">>

\* One line of the NDJSON body: JSON.stringify(...) + "\n".
NdjsonLine(u) == JSONstringify(u) \o <<"\n">>

\* One SSE frame: `data: ${JSON.stringify(...)}\n\n`.
SseFrame(u) == <<"data:", " ">> \o JSONstringify(u) \o <<"\n", "\n">>

\* text.split("\n")
RECURSIVE Split(_)
Split(text) ==
    IF \A i \in 1..Len(text) : text[i] # "\n"
    THEN <<text>>
    ELSE LET k == CHOOSE i \in 1..Len(text) :
                      text[i] = "\n" /\ \A j \in 1..(i - 1) : text[j] # "\n"
         IN <<SubSeq(text, 1, k - 1)>> \o Split(SubSeq(text, k + 1, Len(text)))

\* text.trim()
RECURSIVE Trim(_)
Trim(text) ==
    IF text = <<>> THEN text
    ELSE IF text[1] = " " THEN Trim(Tail(text))
    ELSE IF text[Len(text)] = " " THEN Trim(SubSeq(text, 1, Len(text) - 1))
    ELSE text

\* JSON.parse(text): the value, or a throw.  White space around the value is
\* allowed; `{}` is an object without members.
JSONparse(text) ==
    LET t == Trim(text)
    IN IF Len(t) = 3 /\ t[1] = "{" /\ t[3] = "}" /\ t[2] \in MemberTokens
       THEN [threw |-> FALSE, data |-> UnitOf(t[2])]
       ELSE IF t = <<"{", "}">>
       THEN [threw |-> FALSE, data |-> [type |-> "none", progress |-> 0]]
       ELSE [threw |-> TRUE, data |-> [type |-> "none", progress |-> 0]]

\* The units one line of handleStreamResponse applies: a non-blank line that
\* parses and is tagged complete or progress; a throw of JSON.parse is caught
\* and ignored.
NdjsonLineUnits(line) ==
    IF Trim(line) = <<>> THEN <<>>
    ELSE LET r == JSONparse(line)
         IN IF ~r.threw /\ r.data.type \in {"complete", "progress"}
            THEN <<r.data>>
            ELSE <<>>

\* line.startsWith("data: ")
StartsWithData(line) == Len(line) >= 2 /\ line[1] = "data:" /\ line[2] = " "

\* The units one line of handleSSEResponse applies: line.slice(6) of a line
\* with the prefix, parsed; heartbeat and start units are ignored.
SseLineUnits(line) ==
    IF ~StartsWithData(line) THEN <<>>
    ELSE LET r == JSONparse(SubSeq(line, 3, Len(line)))
         IN IF ~r.threw /\ r.data.type \in {"complete", "progress"}
            THEN <<r.data>>
            ELSE <<>>

\* Mutant: a line that does not parse ends the pass over the lines.
RECURSIVE NdjsonUnits_StopAtThrow(_)
NdjsonUnits_StopAtThrow(lines) ==
    IF lines = <<>> THEN <<>>
    ELSE IF Trim(Head(lines)) # <<>> /\ JSONparse(Head(lines)).threw THEN <<>>
    ELSE NdjsonLineUnits(Head(lines)) \o NdjsonUnits_StopAtThrow(Tail(lines))

\* The for loop over the complete lines of handleStreamResponse.
RECURSIVE NdjsonUnits(_)
NdjsonUnits(lines) ==
    IF lines = <<>> THEN <<>>
    ELSE NdjsonLineUnits(Head(lines)) \o NdjsonUnits(Tail(lines))

\* The for loop over the lines of handleSSEResponse.
RECURSIVE SseUnits(_)
SseUnits(lines) ==
    IF lines = <<>> THEN <<>>
    ELSE SseLineUnits(Head(lines)) \o SseUnits(Tail(lines))

\* Mutant: the incomplete last line is dropped instead of kept.
NdjsonChunk_NoBuffer(buf, chunk) ==
    LET lines == Split(buf \o chunk)
    IN [buffer |-> <<>>, units |-> NdjsonUnits(lines)]

\* One pass of the loop of handleStreamResponse over a chunk read:
\* buffer += decode(value); lines = buffer.split("\n"); buffer = lines.pop().
NdjsonChunk(buf, chunk) ==
    LET lines == Split(buf \o chunk)
    IN [buffer |-> lines[Len(lines)],
        units |-> NdjsonUnits(SubSeq(lines, 1, Len(lines) - 1))]

\* One pass of the loop of handleSSEResponse over a chunk read: the chunk
\* alone is split into lines; nothing is carried to the next read.
SseChunk(buf, chunk) ==
    [buffer |-> buf, units |-> SseUnits(Split(chunk))]

\* The state the setProgress / setResponse calls for `units` leave.
RECURSIVE Apply(_, _)
Apply(st, units) ==
    IF units = <<>> THEN st
    ELSE LET u == Head(units)
         IN Apply(IF u.type = "complete"
                  THEN [st EXCEPT !.response = u]
                  ELSE [st EXCEPT !.progress = u.progress],
                  Tail(units))

\* ------------------------------------------------------ client: helpers


\* The data res.json() yields in signal mode: {mode, message, timestamp, duration}.
SignalData == [type |-> "signal", progress |-> 0]

\* The bodies a 200 response of a streaming mode can carry: the units the
\* server writes for a completed operation, and those it has written when
\* the stream is closed early.  (The start unit, which both parsers ignore,
\* is left out.)
ResponseBodies(m) ==
    IF m = "heartbeat"
    THEN {SseFrame(CompleteUnit),
          SseFrame(HeartbeatUnit)}
    ELSE {NdjsonLine(ProgressUnit(50)) \o NdjsonLine(CompleteUnit),
          NdjsonLine(ProgressUnit(50))}

\* The component state one run of a handler works on.
State == [loading |-> loading, response |-> response, error |-> error,
          progress |-> progress, ref |-> abortControllerRef]

SetState(st) ==
    /\ loading' = st.loading
    /\ response' = st.response
    /\ error' = st.error
    /\ progress' = st.progress
    /\ abortControllerRef' = st.ref

\* Mutant: the ref is cleared but its controller is not aborted.
cleanupRequest_NoAbort(ab, ref) == [aborted |-> ab, ref |-> 0]

\* cleanupRequest: abort the controller the ref holds and clear the ref.
cleanupRequest(ab, ref) ==
    IF ref # 0
    THEN [aborted |-> [ab EXCEPT ![ref] = TRUE], ref |-> 0]
    ELSE [aborted |-> ab, ref |-> ref]

\* Mutant: the catch block sets the error whatever request is current.
Catch_NoIdCheck(st, i, name) ==
    IF name = "AbortError"
    THEN [st EXCEPT !.error = "Request was cancelled"]
    ELSE [st EXCEPT !.error = name]

\* catch (err) of handleApiCall, for an error of the given name.
Catch(st, i, name) ==
    IF i # requestIdRef THEN st
    ELSE IF name = "AbortError"
    THEN [st EXCEPT !.error = "Request was cancelled"]
    ELSE [st EXCEPT !.error = name]

\* Mutant: the finally clears loading and the ref whatever request is current.
Finally_NoIdCheck(st, i) == [st EXCEPT !.loading = FALSE, !.ref = 0]

\* Mutant: the finally leaves loading and the ref as they are.
Finally_KeepsLoading(st, i) == st

\* finally of handleApiCall.
Finally(st, i) ==
    IF i = requestIdRef
    THEN [st EXCEPT !.loading = FALSE, !.ref = 0]
    ELSE st

\* Mutant: the read loop goes on after the signal was aborted.
ShouldBreak_IgnoreAborted(i, done) ==
    done \/ i # requestIdRef

\* The test of the read loops: done, superseded or aborted.
ShouldBreak(i, done) ==
    done \/ i # requestIdRef \/ aborted[i]

\* The place a request that stops leaves by.
ExitOf(i, otherwise) ==
    IF i # requestIdRef THEN "superseded"
    ELSE IF aborted[i] THEN "aborted"
    ELSE otherwise

\* One pass of the read loop over a chunk, by the parser of the mode.
Chunk(m, buf, chunk) ==
    IF m = "heartbeat" THEN SseChunk(buf, chunk) ELSE NdjsonChunk(buf, chunk)

\* handleApiCall returns: its locals (the captured mode, the response, the
\* read position, the line buffer) are gone, and with them the record of the
\* units it applied.
Ends(i, exit) ==
    /\ cpc' = [cpc EXCEPT ![i] = "done"]
    /\ cexit' = [cexit EXCEPT ![i] = exit]
    /\ cmode' = [cmode EXCEPT ![i] = "signal"]
    /\ applied' = [applied EXCEPT ![i] = <<>>]
    /\ body' = [body EXCEPT ![i] = <<>>]
    /\ rpos' = [rpos EXCEPT ![i] = 0]
    /\ buffer' = [buffer EXCEPT ![i] = <<>>]

\* ------------------------------------------------------ client: actions

\* handleApiCall to its await fetch(...), for the mode m selected.
handleApiCall(m) ==
    /\ UNCHANGED svars
    /\ ~loading
    /\ requestIdRef < MaxRequests
    /\ LET currentRequestId == requestIdRef + 1
           cl == cleanupRequest(aborted, abortControllerRef)
       IN /\ requestIdRef' = currentRequestId
          /\ loading' = TRUE
          /\ response' = NullData
          /\ error' = Null
          /\ progress' = 0
          /\ aborted' = [cl.aborted EXCEPT ![currentRequestId] = FALSE]
          /\ abortControllerRef' = currentRequestId
          /\ cpc' = [cpc EXCEPT ![currentRequestId] = "fetch"]
          /\ cmode' = [cmode EXCEPT ![currentRequestId] = m]
    /\ UNCHANGED <<cexit, body, rpos, buffer, reader, applied>>

\* handleCancelRequest.
handleCancelRequest ==
    /\ UNCHANGED svars
    /\ loading
    /\ LET cl == cleanupRequest(aborted, abortControllerRef)
       IN /\ aborted' = cl.aborted
          /\ abortControllerRef' = cl.ref
    /\ loading' = FALSE
    /\ progress' = 0
    /\ error' = "Request cancelled by user"
    /\ UNCHANGED <<response, requestIdRef, cpc, cexit, cmode, body, rpos,
                   buffer, reader, applied>>

\* fetch resolves with a response of status st (and body b) and
\* handleApiCall runs on to its next await or to its end.
FetchResolves(i, st, b) ==
    /\ UNCHANGED svars
    /\ cpc[i] = "fetch"
    /\ IF i # requestIdRef \/ aborted[i]
       THEN /\ SetState(Finally(State, i))
            /\ Ends(i, ExitOf(i, "none"))
            /\ UNCHANGED reader
       ELSE CASE st = 499 ->
                   /\ SetState(Finally(
                         [State EXCEPT !.error = "Request was cancelled by server"], i))
                   /\ Ends(i, "499")
                   /\ UNCHANGED reader
              [] st = 500 ->
                   /\ SetState(Finally(Catch(State, i, "HTTP error"), i))
                   /\ Ends(i, "caught")
                   /\ UNCHANGED reader
              [] st = 200 /\ cmode[i] = "signal" ->
                   /\ cpc' = [cpc EXCEPT ![i] = "json"]
                   /\ UNCHANGED <<ui, abortControllerRef, cexit, cmode, body,
                                  rpos, buffer, reader, applied>>
              [] st = 200 /\ cmode[i] # "signal" ->
                   /\ b \in ResponseBodies(cmode[i])
                   /\ cpc' = [cpc EXCEPT ![i] = "read"]
                   /\ body' = [body EXCEPT ![i] = b]
                   /\ reader' = [reader EXCEPT ![i] = "locked"]
                   /\ UNCHANGED <<ui, abortControllerRef, cexit, cmode, rpos,
                                  buffer, applied>>
    /\ UNCHANGED <<requestIdRef, aborted>>

\* fetch rejects: with AbortError once the signal is aborted, with a network
\* error (TypeError) before.
FetchRejects(i, name) ==
    /\ UNCHANGED svars
    /\ cpc[i] = "fetch"
    /\ name = "AbortError" <=> aborted[i]
    /\ SetState(Finally(Catch(State, i, name), i))
    /\ Ends(i, ExitOf(i, "caught"))
    /\ UNCHANGED <<requestIdRef, aborted, reader>>

\* res.json() resolves in signal mode.
JsonResolves(i) ==
    /\ UNCHANGED svars
    /\ cpc[i] = "json"
    /\ IF i = requestIdRef /\ ~aborted[i]
       THEN /\ SetState(Finally([State EXCEPT !.response = SignalData], i))
            /\ Ends(i, "stored")
       ELSE /\ SetState(Finally(State, i))
            /\ Ends(i, ExitOf(i, "none"))
    /\ UNCHANGED <<requestIdRef, aborted, reader>>

\* res.json() rejects: AbortError once aborted, SyntaxError for a body that
\* is not JSON.
JsonRejects(i, name) ==
    /\ UNCHANGED svars
    /\ cpc[i] = "json"
    /\ name = "AbortError" <=> aborted[i]
    /\ SetState(Finally(Catch(State, i, name), i))
    /\ Ends(i, ExitOf(i, "caught"))
    /\ UNCHANGED <<requestIdRef, aborted, reader>>

\* reader.read() resolves with the next n bytes of the body, in
\* handleSSEResponse or handleStreamResponse by the mode.
ReadValue(i, n) ==
    /\ UNCHANGED svars
    /\ cpc[i] = "read"
    /\ n \in 1..(Len(body[i]) - rpos[i])
    /\ IF ShouldBreak(i, FALSE)
       THEN /\ reader' = [reader EXCEPT ![i] = "released"]
            /\ SetState(Finally(State, i))
            /\ Ends(i, ExitOf(i, "none"))
       ELSE \E r \in {Chunk(cmode[i], buffer[i],
                             SubSeq(body[i], rpos[i] + 1, rpos[i] + n))} :
               /\ rpos' = [rpos EXCEPT ![i] = @ + n]
               /\ buffer' = [buffer EXCEPT ![i] = r.buffer]
               /\ applied' = [applied EXCEPT ![i] = @ \o r.units]
               /\ \E st \in {Apply(State, r.units)} : SetState(st)
               /\ UNCHANGED <<cpc, cexit, cmode, body, reader>>
    /\ UNCHANGED <<requestIdRef, aborted>>

\* reader.read() resolves with done: the loop breaks, the lock is released
\* and handleApiCall ends through its finally.
ReadDone(i) ==
    /\ UNCHANGED svars
    /\ cpc[i] = "read"
    /\ rpos[i] = Len(body[i])
    /\ ShouldBreak(i, TRUE)
    /\ reader' = [reader EXCEPT ![i] = "released"]
    /\ SetState(Finally(State, i))
    /\ Ends(i, ExitOf(i, "ended"))
    /\ UNCHANGED <<requestIdRef, aborted>>

\* Mutant: a read that rejects leaves the reader locked.
ReadRejects_KeepsLock(i, name) ==
    /\ UNCHANGED svars
    /\ cpc[i] = "read"
    /\ name = "AbortError" <=> aborted[i]
    /\ SetState(Finally(Catch(State, i, name), i))
    /\ Ends(i, ExitOf(i, "caught"))
    /\ UNCHANGED <<requestIdRef, aborted, reader>>

\* reader.read() rejects: the finally of the parser releases the lock and the
\* error reaches the catch of handleApiCall.
ReadRejects(i, name) ==
    /\ UNCHANGED svars
    /\ cpc[i] = "read"
    /\ name = "AbortError" <=> aborted[i]
    /\ reader' = [reader EXCEPT ![i] = "released"]
    /\ SetState(Finally(Catch(State, i, name), i))
    /\ Ends(i, ExitOf(i, "caught"))
    /\ UNCHANGED <<requestIdRef, aborted>>

\* No server operation: the request variables at rest.
ServerIdle ==
    /\ smode = "signal" /\ duration = 0 /\ sig = FALSE /\ spc = "request"
    /\ elapsed = 0 /\ timer = NoTimer /\ heartbeatInterval = NoTimer
    /\ controller = [state |-> "readable", out |-> <<>>]
    /\ status = 0 /\ sbody = "none" /\ slog = <<>> /\ faults = {}

ClientNext ==
    \/ \E m \in Modes : handleApiCall(m)
    \/ handleCancelRequest
    \/ \E i \in Requests, st \in {200, 499, 500} :
           \E b \in (IF st = 200 /\ cmode[i] # "signal"
                     THEN ResponseBodies(cmode[i]) ELSE {<<>>}) :
               FetchResolves(i, st, b)
    \/ \E i \in Requests, name \in {"AbortError", "TypeError"} :
           FetchRejects(i, name)
    \/ \E i \in Requests : JsonResolves(i)
    \/ \E i \in Requests, name \in {"AbortError", "SyntaxError"} :
           JsonRejects(i, name)
    \/ \E i \in Requests : \E n \in 1..Len(body[i]) : ReadValue(i, n)
    \/ \E i \in Requests : ReadDone(i)
    \/ \E i \in Requests, name \in {"AbortError", "TypeError"} :
           ReadRejects(i, name)

\* --------------------------------------------- the parsers on their own

\* The pieces a body of the parser checks is made of.  NDJSON: well-formed
\* unit lines, a line cut before its closing brace, a line of another
\* character, a blank line, an object without members, and a unit without
\* its line break.  SSE: well-formed frames and a frame whose data is not JSON.
NdjsonPieces ==
    {NdjsonLine(ProgressUnit(50)), NdjsonLine(ProgressUnit(100)),
     NdjsonLine(CompleteUnit),
     <<"{", "p50", "\n">>, <<"x", "\n">>, <<" ", "\n">>, <<"{", "}", "\n">>,
     JSONstringify(ProgressUnit(100))}

SsePieces ==
    {SseFrame(CompleteUnit), SseFrame(HeartbeatUnit), SseFrame(ProgressUnit(50)),
     <<"data:", " ", "x", "\n", "\n">>}

\* The concatenations of at most k pieces.
RECURSIVE Bodies(_, _)
Bodies(pieces, k) ==
    IF k = 0 THEN {<<>>}
    ELSE LET shorter == Bodies(pieces, k - 1)
         IN shorter \cup {b \o q : b \in shorter, q \in pieces}

\* Request 1 has its 200 response and stands at its first reader.read(): the
\* state handleApiCall and FetchResolves leave, for any body of the mode.
ParserInit ==
    /\ ServerIdle
    /\ loading = TRUE
    /\ response = NullData
    /\ error = Null
    /\ progress = 0
    /\ abortControllerRef = 1
    /\ requestIdRef = 1
    /\ cpc = [i \in Requests |-> IF i = 1 THEN "read" ELSE "idle"]
    /\ cexit = [i \in Requests |-> "none"]
    /\ \E m \in StreamingModes :
          /\ cmode = [i \in Requests |-> IF i = 1 THEN m ELSE "signal"]
          /\ \E b \in Bodies(IF m = "heartbeat" THEN SsePieces ELSE NdjsonPieces,
                             MaxPieces) :
                 body = [i \in Requests |-> IF i = 1 THEN b ELSE <<>>]
    /\ aborted = [i \in Requests |-> FALSE]
    /\ rpos = [i \in Requests |-> 0]
    /\ buffer = [i \in Requests |-> <<>>]
    /\ reader = [i \in Requests |-> IF i = 1 THEN "locked" ELSE "none"]
    /\ applied = [i \in Requests |-> <<>>]

ParserNext ==
    \/ \E n \in 1..Len(body[1]) : ReadValue(1, n)
    \/ ReadDone(1)

\* ------------------------------------------------------- client: claims

\* Request i has taken a step: its position or its read position moved.
Stepped(i) == cpc'[i] # cpc[i] \/ rpos'[i] # rpos[i]

\* C1: no step of a request that a later request has superseded (its
\* response, a stream unit, an error, its end) changes loading, response,
\* error or progress, nor the controller the ref holds.
C1_SupersededNeverMutates ==
    [][\A i \in Requests :
           (i < requestIdRef /\ Stepped(i)) =>
               UNCHANGED <<loading, response, error, progress,
                           abortControllerRef>>]_vars

\* A superseded request has come back and was dropped, and the request that
\* superseded it has stored its response.
C1_Witness ==
    \E i \in Requests :
        /\ i < requestIdRef
        /\ cexit[i] = "superseded"
        /\ response # NullData

CancellationErrors == {"Request cancelled by user", "Request was cancelled"}

InFlight(i) == cpc[i] \in {"fetch", "json", "read"}

\* Request i is the current one and stands cancelled with nothing applied.
Cancelled(i) ==
    /\ i = requestIdRef
    /\ aborted[i]
    /\ ~loading
    /\ progress = 0
    /\ response = NullData
    /\ error \in CancellationErrors

\* C2: a cancellation of a request that has received no byte leaves at once
\* loading false, progress 0, response null and a cancellation error; that
\* stays so until the next request is issued, whatever the network delivers
\* later; and a request whose signal is aborted applies no unit any more.
C2_CancelBeforeBytes ==
    /\ [][\A i \in Requests :
              (/\ InFlight(i) /\ rpos[i] = 0
               /\ ~aborted[i] /\ aborted'[i]
               /\ requestIdRef' = requestIdRef) =>
                  (Cancelled(i)' /\ error' = "Request cancelled by user")]_vars
    /\ [][\A i \in Requests :
              (Cancelled(i) /\ requestIdRef' = requestIdRef) => Cancelled(i)']_vars
    /\ [][\A i \in Requests :
              aborted[i] => Len(applied'[i]) <= Len(applied[i])]_vars

\* A cancelled request whose read settled after the cancellation.
C2_Witness ==
    \E i \in Requests :
        /\ Cancelled(i)
        /\ cpc[i] = "done"
        /\ cexit[i] = "aborted"
        /\ reader[i] = "released"

\* C12: a step that allocates a request identity (handleApiCall) leaves
\* every earlier request that is still in flight with its signal aborted, and
\* the identity it allocates is greater than every identity allocated before,
\* was never used, and comes with a controller that is not aborted and that
\* the ref now holds.
C12_NewInvocationSupersedes ==
    [][requestIdRef' # requestIdRef =>
          /\ requestIdRef' > requestIdRef
          /\ \A i \in Requests : cpc[i] # "idle" => i < requestIdRef'
          /\ cpc[requestIdRef'] = "idle"
          /\ \A i \in Requests : InFlight(i) => aborted'[i]
          /\ ~aborted'[requestIdRef']
          /\ abortControllerRef' = requestIdRef']_vars

\* A second request was issued while the first was still in flight.
C12_Witness ==
    /\ requestIdRef = 2
    /\ InFlight(1) /\ aborted[1]
    /\ cpc[2] = "fetch" /\ ~aborted[2]
    /\ abortControllerRef = 2
    /\ loading

\* C13: a request whose streaming body ended without a completion unit
\* leaves the component in a cancelled state when it was cancelled, and with
\* an error set when it was not.
C13_EarlyEndFails ==
    \A i \in Requests :
        (/\ i = requestIdRef /\ cpc[i] = "done" /\ reader[i] = "released"
         /\ response = NullData) =>
            /\ cexit[i] = "aborted" => (~loading /\ error \in CancellationErrors)
            /\ cexit[i] = "ended" => error # Null

\* C14: a reader is locked only while its request stands at reader.read(); no
\* request that has ended holds one, however it ended (stream end, read
\* failure, supersession, cancellation); and, reads settling, every reader
\* that was locked is released.
C14_ReadersReleased ==
    /\ [](\A i \in Requests :
              /\ reader[i] = "locked" <=> cpc[i] = "read"
              /\ cpc[i] = "done" => reader[i] \in {"none", "released"})
    /\ \A i \in Requests : (reader[i] = "locked") ~> (reader[i] = "released")

\* A superseded request and the one after it have both released their readers.
C14_Witness ==
    /\ cpc[1] = "done" /\ cexit[1] = "superseded" /\ reader[1] = "released"
    /\ cpc[2] = "done" /\ cexit[2] = "ended" /\ reader[2] = "released"

\* C17: once handleCancelRequest has cancelled the current request, no later
\* step of that request (its fetch or read settling, its catch, its finally)
\* changes loading, response, error or progress.
C17_NoWriteAfterCancel ==
    [][\A i \in Requests :
           (/\ i = requestIdRef /\ aborted[i] /\ InFlight(i)
            /\ Stepped(i)) =>
               UNCHANGED <<loading, response, error, progress>>]_vars

\* C18: every request in flight other than the one that holds both the
\* current identity and the controller of the ref has its signal aborted, so
\* at most one request in flight is not aborted; and cleanupRequest run a
\* second time changes nothing.
C18_OneCurrentOperation ==
    /\ \A i \in Requests :
           (InFlight(i) /\ ~(i = requestIdRef /\ i = abortControllerRef)) =>
               aborted[i]
    /\ Cardinality({i \in Requests : InFlight(i) /\ ~aborted[i]}) <= 1
    /\ abortControllerRef \in {0, requestIdRef}
    /\ LET once == cleanupRequest(aborted, abortControllerRef)
       IN cleanupRequest(once.aborted, once.ref) = once

\* Two requests in flight, the earlier one aborted, the later one current.
C18_Witness ==
    /\ InFlight(1) /\ aborted[1]
    /\ cpc[2] = "read" /\ ~aborted[2]
    /\ requestIdRef = 2 /\ abortControllerRef = 2

\* C20: in no state are a response and an error both set.
C20_ResponseXorError ==
    ~(response # NullData /\ error # Null)

\* C22: loading is true only while the current request is in flight with its
\* signal not aborted, and, fetches and reads settling, whenever loading is
\* true it becomes false again.
C22_LoadingEventuallyFalse ==
    /\ [](loading =>
              \E i \in Requests :
                  i = requestIdRef /\ InFlight(i) /\ ~aborted[i])
    /\ loading ~> ~loading

\* A request answered with 499 and a later one that failed have both left
\* loading false.
C22_Witness ==
    /\ requestIdRef = 2
    /\ cexit[1] = "499"
    /\ cexit[2] = "caught"
    /\ ~loading

\* Request 1 has read its whole body and has not yet seen done.
AllRead == cpc[1] = "read" /\ rpos[1] = Len(body[1])

\* The component state after the units `units`, from the state a request
\* starts in.
StateAfter(units) ==
    Apply([loading |-> TRUE, response |-> NullData, error |-> Null,
           progress |-> 0, ref |-> 1], units)

\* C8: however the reads cut an NDJSON body, the units applied when it is
\* all read, the line buffer and the component state are those of one read
\* of the whole body.
C8_NdjsonSplitIndependent ==
    (AllRead /\ cmode[1] \in {"stream", "chunked"}) =>
        LET whole == NdjsonChunk(<<>>, body[1])
        IN /\ applied[1] = whole.units
           /\ buffer[1] = whole.buffer
           /\ State = StateAfter(whole.units)

\* A read has ended in the middle of a line after a unit was applied.
C8_Witness ==
    /\ cpc[1] = "read"
    /\ cmode[1] = "stream"
    /\ body[1] = NdjsonLine(ProgressUnit(50)) \o NdjsonLine(CompleteUnit)
    /\ applied[1] = <<ProgressUnit(50)>>
    /\ buffer[1] = <<"{", "complete">>

\* C9: however the reads cut a body of SSE frames, the events applied when
\* it is all read are those of one read of the whole body.
C9_SseSplitIndependent ==
    (AllRead /\ cmode[1] = "heartbeat") =>
        applied[1] = SseChunk(<<>>, body[1]).units

\* The units of the well-formed unit lines of an NDJSON text, in order: a
\* line counts when, trimmed, it is the JSON of a progress or complete unit.
RECURSIVE WellFormedUnits(_)
WellFormedUnits(lines) ==
    IF lines = <<>> THEN <<>>
    ELSE (IF \E u \in {ProgressUnit(50), ProgressUnit(100), CompleteUnit} :
                 Trim(Head(lines)) = JSONstringify(u)
          THEN <<UnitOf(Trim(Head(lines))[2])>>
          ELSE <<>>) \o WellFormedUnits(Tail(lines))

CompleteLines(text) == SubSeq(Split(text), 1, Len(Split(text)) - 1)

\* C10: the lines of an NDJSON body that are not well-formed units change
\* nothing: no error is ever set, and when the body is all read the units
\* applied are exactly its well-formed unit lines, in order, and the component
\* state is the one they leave.
C10_MalformedLineSkipped ==
    (cpc[1] = "read" /\ cmode[1] \in {"stream", "chunked"}) =>
        /\ error = Null
        /\ loading
        /\ rpos[1] = Len(body[1]) =>
              /\ applied[1] = WellFormedUnits(CompleteLines(body[1]))
              /\ State = StateAfter(applied[1])

\* A progress unit, a line cut short, and a progress unit, all read.
C10_Witness ==
    /\ AllRead
    /\ cmode[1] = "stream"
    /\ body[1] = NdjsonLine(ProgressUnit(50)) \o <<"{", "p50", "\n">>
                    \o NdjsonLine(ProgressUnit(100))
    /\ applied[1] = <<ProgressUnit(50), ProgressUnit(100)>>
    /\ progress = 100

\* ------------------------------------------------------- specifications

\* The server operation alone: the client stays as constructed.
ServerSpec == ServerInit /\ [][ServerNext]_vars

\* The operation with the runtime doing its part: the handler is run, and a
\* timer that is due fires.
ServerLiveSpec ==
    ServerSpec /\ WF_vars(GET) /\ WF_vars(DelayResolves) /\ WF_vars(HeartbeatTick)

\* The client alone: no server operation is modelled; what the server answers
\* is the input of FetchResolves and of the reads.
Init ==
    /\ ClientIdle
    /\ ServerIdle

Next == ClientNext

Spec == Init /\ [][Next]_vars

\* One streaming response read to its end, with no cancellation.
ParserSpec == ParserInit /\ [][ParserNext]_vars

\* A reader.read() that is pending settles: with a chunk, with done, or with
\* a rejection (the AbortError of an aborted signal included).
ReadSettles(i) ==
    \/ \E name \in {"AbortError", "TypeError"} : ReadRejects(i, name)
    \/ ReadDone(i)
    \/ \E n \in 1..Len(body[i]) : ReadValue(i, n)

\* A fetch that is pending settles: it rejects (with the AbortError of an
\* aborted signal or a network error) or resolves with a response.
FetchSettles(i) ==
    \/ \E name \in {"AbortError", "TypeError"} : FetchRejects(i, name)
    \/ \E st \in {200, 499, 500} :
           \E b \in (IF st = 200 /\ cmode[i] # "signal"
                     THEN ResponseBodies(cmode[i]) ELSE {<<>>}) :
               FetchResolves(i, st, b)

\* A res.json() that is pending settles.
JsonSettles(i) ==
    \/ \E name \in {"AbortError", "SyntaxError"} : JsonRejects(i, name)
    \/ JsonResolves(i)

\* The component with every pending fetch, res.json() and read settling.
LiveSpec ==
    Spec /\ \A i \in Requests :
                /\ WF_vars(FetchSettles(i))
                /\ WF_vars(JsonSettles(i))
                /\ WF_vars(ReadSettles(i))

====
